---- MODULE Spec2Model ----
(***************************************************************************)
(* A model of logiledpy: the Color value type (color.py) and the          *)
(* LEDService facade over the vendor LED library (led.py).                 *)
(*                                                                         *)
(* Python strings are sequences of one-character strings.  The native     *)
(* library is a stub that exports every entry point the code names,       *)
(* records each call and answers with an integer of the environment's     *)
(* choosing.                                                               *)
(***************************************************************************)
EXTENDS Integers, Sequences, FiniteSets, TLC

VARIABLES
    runtime,    \* major version of the interpreter running color.py (2 or 3)
    call,       \* arguments of the latest Color(...) call
    color,      \* outcome of the latest Color(...) call
    origin,     \* the Color whose hex_code the latest call was built from
    percent,    \* what rgb_percent returned for color, <<>> before it is called
    env,        \* os.environ: ProgramW6432 and ProgramFiles
    bits,       \* platform.architecture()[0]
    fs,         \* the paths that exist
    libs,       \* the existing paths that LoadLibrary can load
    svc,        \* the LEDService handle the caller holds
    last,       \* outcome of the latest LEDService operation
    issued,     \* facade operations issued, in order
    native,     \* calls received by the native library, in order
    pc,         \* position of the caller relative to a with-scope
    scope       \* native calls made since the with-scope was entered

vars == <<runtime, call, color, origin, percent, env, bits, fs, libs, svc,
          last, issued, native, pc, scope>>

colorVars == <<runtime, call, color, origin, percent>>
loadVars == <<env, bits, fs, libs>>
ledVars == <<svc, last, issued, native, pc, scope>>

(***************************************************************************)
(* Bounds                                                                  *)
(***************************************************************************)
MaxStrLen == 7
MaxCalls == 3

(***************************************************************************)
(* Python strings, the "hex" codec and struct's "B" format                 *)
(***************************************************************************)
ByteMax == 255
DefaultAlpha == 255

Byte == 0..ByteMax

HexDigits == <<"0", "1", "2", "3", "4", "5", "6", "7",
               "8", "9", "a", "b", "c", "d", "e", "f">>

UpperHexDigits == <<"0", "1", "2", "3", "4", "5", "6", "7",
                    "8", "9", "A", "B", "C", "D", "E", "F">>

IsHexDigit(c) == \E i \in 1..16 : HexDigits[i] = c \/ UpperHexDigits[i] = c

HexVal(c) == (CHOOSE i \in 1..16 : HexDigits[i] = c \/ UpperHexDigits[i] = c) - 1

\* hex_code.replace("#", "")
StripHash(s) == SelectSeq(s, LAMBDA c : c # "#")

\* a decoder that drops a trailing odd digit instead of raising
DecodeHexLenient(s) ==
    LET ok == \A i \in 1..Len(s) : IsHexDigit(s[i])
    IN  [ok |-> ok,
         bytes |-> IF ok
                   THEN [i \in 1..(Len(s) \div 2) |->
                            16 * HexVal(s[2 * i - 1]) + HexVal(s[2 * i])]
                   ELSE <<>>]

\* s.decode("hex") on Python 2: TypeError on an odd length or a non-hex digit
DecodeHex(s) ==
    LET ok == Len(s) % 2 = 0 /\ \A i \in 1..Len(s) : IsHexDigit(s[i])
    IN  [ok |-> ok,
         bytes |-> IF ok
                   THEN [i \in 1..(Len(s) \div 2) |->
                            16 * HexVal(s[2 * i - 1]) + HexVal(s[2 * i])]
                   ELSE <<>>]

\* b.encode("hex") on Python 2: two lower-case digits per byte
EncodeHex(b) ==
    [i \in 1..(2 * Len(b)) |->
        IF i % 2 = 1
        THEN HexDigits[((b[(i + 1) \div 2] \div 16) % 16) + 1]
        ELSE HexDigits[(b[i \div 2] % 16) + 1]]

\* struct.pack("BBB", r, g, b) raises struct.error unless each fits a byte
StructPackOk(r, g, b) == {r, g, b} \subseteq Byte

(***************************************************************************)
(* Color.__init__                                                          *)
(***************************************************************************)
Str(t) ==
    CASE t = "red" -> <<"r", "e", "d">>
      [] t = "orange" -> <<"o", "r", "a", "n", "g", "e">>
      [] t = "yellow" -> <<"y", "e", "l", "l", "o", "w">>
      [] t = "green" -> <<"g", "r", "e", "e", "n">>
      [] t = "blue" -> <<"b", "l", "u", "e">>
      [] t = "indigo" -> <<"i", "n", "d", "i", "g", "o">>
      [] t = "violet" -> <<"v", "i", "o", "l", "e", "t">>
      [] t = "cyan" -> <<"c", "y", "a", "n">>
      [] t = "pink" -> <<"p", "i", "n", "k">>
      [] t = "purple" -> <<"p", "u", "r", "p", "l", "e">>
      [] t = "white" -> <<"w", "h", "i", "t", "e">>
      [] t = "black" -> <<"b", "l", "a", "c", "k">>

PaletteWords == {"red", "orange", "yellow", "green", "blue", "indigo",
                 "violet", "cyan", "pink", "purple", "white", "black"}

PaletteNames == {Str(t) : t \in PaletteWords}

Palette(s) ==
    CASE s = Str("red") -> <<255, 0, 0>>
      [] s = Str("orange") -> <<255, 165, 0>>
      [] s = Str("yellow") -> <<255, 255, 0>>
      [] s = Str("green") -> <<0, 255, 0>>
      [] s = Str("blue") -> <<0, 0, 255>>
      [] s = Str("indigo") -> <<75, 0, 130>>
      [] s = Str("violet") -> <<238, 130, 238>>
      [] s = Str("cyan") -> <<0, 220, 255>>
      [] s = Str("pink") -> <<255, 0, 255>>
      [] s = Str("purple") -> <<128, 0, 255>>
      [] s = Str("white") -> <<255, 255, 255>>
      [] s = Str("black") -> <<0, 0, 0>>

ChannelKeywords == {"red", "blue", "green", "alpha"}

NoColor == [status |-> "none", exc |-> "", red |-> 0, green |-> 0, blue |-> 0,
            alpha |-> 0, hex_code |-> <<>>]

Raised(e) == [NoColor EXCEPT !.status = "raised", !.exc = e]

Parsed(e, r, g, b, a, isHex, h) ==
    [exc |-> e, red |-> r, green |-> g, blue |-> b, alpha |-> a,
     isHex |-> isHex, hex_code |-> h]

\* lines 8-44: the positional arguments.  c.kind is the type of args[0]
\* ("none" when there are no positional arguments); for "int" c.ints is args,
\* for "str" c.str is args[0] and c.ints is args[1:].
ParseArgs(c) ==
    CASE c.kind = "none" -> Parsed("", 0, 0, 0, DefaultAlpha, FALSE, <<>>)
      [] c.kind = "int" ->
            IF Len(c.ints) < 3
            THEN Parsed("IndexError", 0, 0, 0, DefaultAlpha, FALSE, <<>>)
            ELSE Parsed("", c.ints[1], c.ints[2], c.ints[3],
                        IF Len(c.ints) > 3 THEN c.ints[4] ELSE DefaultAlpha,
                        FALSE, <<>>)
      [] c.kind = "str" ->
            LET alpha == IF Len(c.ints) > 0 THEN c.ints[1] ELSE DefaultAlpha
            IN  IF c.str \in PaletteNames
                THEN Parsed("", Palette(c.str)[1], Palette(c.str)[2],
                            Palette(c.str)[3], alpha, FALSE, <<>>)
                ELSE Parsed("", 0, 0, 0, alpha, TRUE,
                            IF c.hasHex THEN c.hex ELSE c.str)

\* lines 59-61: the attributes are set, then hex_code is formatted;
\* bytes.encode does not exist on Python 3
Finish(r, g, b, a, rt) ==
    IF ~StructPackOk(r, g, b) THEN Raised("struct.error")
    ELSE IF rt = 3 THEN Raised("AttributeError")
    ELSE [status |-> "ok", exc |-> "", red |-> r, green |-> g, blue |-> b,
          alpha |-> a, hex_code |-> <<"#">> \o EncodeHex(<<r, g, b>>)]

\* lines 45-48: str.decode does not exist on Python 3
FromHexNoStrip(h, a, rt) ==
    LET d == DecodeHex(h)
    IN  IF rt = 3 THEN Raised("AttributeError")
        ELSE IF ~d.ok THEN Raised("TypeError")
        ELSE IF Len(d.bytes) # 3 THEN Raised("struct.error")
        ELSE Finish(d.bytes[1], d.bytes[2], d.bytes[3], a, rt)

FromHex(h, a, rt) == FromHexNoStrip(StripHash(h), a, rt)

Color_init(c, rt) ==
    LET p == ParseArgs(c)
        kw(n, dflt) == IF n \in DOMAIN c.kw THEN c.kw[n] ELSE dflt
    IN  IF p.exc # "" THEN Raised(p.exc)
        ELSE IF p.isHex /\ p.hex_code # <<>> THEN FromHex(p.hex_code, p.alpha, rt)
        ELSE IF DOMAIN c.kw \cap ChannelKeywords # {}
        THEN Finish(kw("red", p.red), kw("green", p.green), kw("blue", p.blue),
                    kw("alpha", p.alpha), rt)
        ELSE Finish(p.red, p.green, p.blue, p.alpha, rt)

(***************************************************************************)
(* rgb_percent.  The quotient x / 255.0 and the product with 100 are taken *)
(* in double precision.  The exact value x * 100 / 255 is 20x / 51: it is  *)
(* an integer for the multiples of 51, where the double result is the      *)
(* integer or just above it (20.000000000000004 for 51), and otherwise at  *)
(* least 1/51 away from an integer, far more than the rounding error.  So  *)
(* int() of the double equals int() of the exact quotient for every x the  *)
(* callers pass.                                                           *)
(***************************************************************************)
\* int(): truncation towards zero
int(n, d) == IF n >= 0 THEN n \div d ELSE -((-n) \div d)

\* x / 255 evaluated as a quotient of integers, as `/` does on Python 2 when
\* neither operand is a float
PercentOfIntegerQuotient(x) == (x \div 255) * 100

Percent(x) == int(x * 100, 255)

rgb_percent(c) == <<Percent(c.red), Percent(c.green), Percent(c.blue)>>

(***************************************************************************)
(* Callers of Color.  Each behaviour evaluates one Color(...) expression,  *)
(* may then rebuild the value from its hex_code, and may take rgb_percent  *)
(* of the Color it ends up with.                                           *)
(***************************************************************************)
Args(kind, ints, s, kw, hasHex, h) ==
    [kind |-> kind, ints |-> ints, str |-> s, kw |-> kw, hasHex |-> hasHex,
     hex |-> h]

NoKw == [k \in {} |-> 0]

NoCall == Args("none", <<>>, <<>>, NoKw, FALSE, <<>>)

EdgeInputs == {-1, 0, ByteMax, ByteMax + 1}
AlphaInputs == {-1, 0, 128, ByteMax, ByteMax + 1}
Alphabet == {"#", "a", "F", "g"}

\* triples in which one channel sweeps -1..256 and the others sit on an edge
ChannelTriples ==
    {<<x, y, z>> : x \in -1..(ByteMax + 1), y \in EdgeInputs, z \in EdgeInputs}
    \cup {<<y, x, z>> : x \in -1..(ByteMax + 1), y \in EdgeInputs, z \in EdgeInputs}
    \cup {<<y, z, x>> : x \in -1..(ByteMax + 1), y \in EdgeInputs, z \in EdgeInputs}

PositionalArgs ==
    ChannelTriples
    \cup {t \o <<a>> : t \in ChannelTriples, a \in AlphaInputs}
    \cup {<<7>>, <<7, 8>>}

KeywordArgs ==
    UNION {[K -> EdgeInputs \cup {128}] : K \in (SUBSET ChannelKeywords) \ {{}}}

StringInputs ==
    PaletteNames \cup UNION {[1..k -> Alphabet] : k \in 0..MaxStrLen}

HexKeywordInputs == {<<>>, <<"g", "g">>, <<"#", "a", "F", "0", "9", "c", "E">>}

ConstructPositional ==
    /\ color.status = "none"
    /\ \E a \in PositionalArgs : call' = Args("int", a, <<>>, NoKw, FALSE, <<>>)
    /\ color' = Color_init(call', runtime)
    /\ origin' = NoColor
    /\ UNCHANGED <<runtime, percent, loadVars, ledVars>>

ConstructKeyword ==
    /\ color.status = "none"
    /\ \E kw \in KeywordArgs :
          \/ call' = Args("none", <<>>, <<>>, kw, FALSE, <<>>)
          \/ \E a \in {<<10, 20, 30>>, <<10, 20, 30, 40>>} :
                call' = Args("int", a, <<>>, kw, FALSE, <<>>)
          \/ \E s \in {Str("indigo"), <<>>, <<"a", "F">>} :
                call' = Args("str", <<>>, s, kw, FALSE, <<>>)
    /\ color' = Color_init(call', runtime)
    /\ origin' = NoColor
    /\ UNCHANGED <<runtime, percent, loadVars, ledVars>>

ConstructString ==
    /\ color.status = "none"
    /\ \E s \in StringInputs, a \in {<<>>, <<0>>, <<ByteMax + 1>>} :
          call' = Args("str", a, s, NoKw, FALSE, <<>>)
    /\ color' = Color_init(call', runtime)
    /\ origin' = NoColor
    /\ UNCHANGED <<runtime, percent, loadVars, ledVars>>

ConstructHexKeyword ==
    /\ color.status = "none"
    /\ \E h \in HexKeywordInputs :
          \/ call' = Args("none", <<>>, <<>>, NoKw, TRUE, h)
          \/ \E s \in {Str("pink"), <<>>, <<"g">>, <<"a", "a", "a", "a", "a", "a">>} :
                call' = Args("str", <<>>, s, NoKw, TRUE, h)
    /\ color' = Color_init(call', runtime)
    /\ origin' = NoColor
    /\ UNCHANGED <<runtime, percent, loadVars, ledVars>>

\* Color(c.hex_code), Color(c.hex_code[1:]), each with or without an alpha
Reconstruct ==
    /\ color.status = "ok"
    /\ origin.status = "none"
    /\ percent = <<>>
    /\ \E a \in {<<>>, <<7>>}, h \in {color.hex_code, Tail(color.hex_code)} :
          call' = Args("str", a, h, NoKw, FALSE, <<>>)
    /\ color' = Color_init(call', runtime)
    /\ origin' = color
    /\ UNCHANGED <<runtime, percent, loadVars, ledVars>>

\* c.rgb_percent() on the Color the caller holds
RgbPercent ==
    /\ color.status = "ok"
    /\ percent = <<>>
    /\ percent' = rgb_percent(color)
    /\ UNCHANGED <<runtime, call, color, origin, loadVars, ledVars>>

(***************************************************************************)
(* Library discovery: LEDService.__init__ and load_dll                     *)
(***************************************************************************)
PathOf(drive, rooted, parts) == [drive |-> drive, rooted |-> rooted, parts |-> parts]

EmptyPath == PathOf("", FALSE, <<>>)

\* pathlib's a / b: a rooted b keeps only a's drive
Join(a, b) ==
    IF b.drive # "" THEN b
    ELSE IF b.rooted THEN PathOf(a.drive, TRUE, b.parts)
    ELSE PathOf(a.drive, a.rooted, a.parts \o b.parts)

Bitness(arch) == IF arch = "32bit" THEN "x86" ELSE "x64"

LegacySubpath(bitness) ==
    PathOf("", FALSE,
           <<"LGHUB", IF bitness = "x86" THEN "sdk_legacy_led_x86.dll"
                      ELSE "sdk_legacy_led_x64.dll">>)

StandardSubpath(bitness) ==
    PathOf("", TRUE,
           <<"Logitech Gaming Software", "SDK", "LED", bitness, "LogitechLed.dll">>)

\* the class attribute LEDService.use_legacy_dll, which `self.use_legacy_dll`
\* reads until __init__ has assigned the instance attribute
use_legacy_dll_default == TRUE

NoPathDll == [given |-> FALSE, p |-> EmptyPath]

\* `not path_dll`: None and the empty string
Falsy(path_dll) == ~path_dll.given \/ path_dll.p = EmptyPath

PathExistsAlways(p) == TRUE

PathExists(p) == p \in fs

Loaded(exc, p) == [exc |-> exc, path |-> p]

load_dll(self_use_legacy_dll, path_dll) ==
    LET bitness == Bitness(bits)
        subpath_dll == IF self_use_legacy_dll THEN LegacySubpath(bitness)
                       ELSE StandardSubpath(bitness)
        found == \E n \in {"ProgramW6432", "ProgramFiles"} : n \in DOMAIN env
        subpath_lgs == IF "ProgramW6432" \in DOMAIN env THEN env["ProgramW6432"]
                       ELSE env["ProgramFiles"]
        path == IF Falsy(path_dll) THEN Join(subpath_lgs, subpath_dll)
                ELSE path_dll.p
    IN  IF Falsy(path_dll) /\ ~found THEN Loaded("KeyError", EmptyPath)
        ELSE IF ~PathExists(path) THEN Loaded("SDKNotFoundException", path)
        ELSE IF path \notin libs THEN Loaded("OSError", path)
        ELSE Loaded("", path)

NoService == [made |-> FALSE, dll |-> EmptyPath, use_legacy_dll |-> use_legacy_dll_default]

NoLast ==
    [op |-> "", exc |-> "", value |-> "None", result |-> 0, calls |-> <<>>,
     key_type |-> "", missing |-> FALSE, path |-> EmptyPath,
     path_dll |-> NoPathDll, use_legacy_dll |-> FALSE, how |-> "",
     args |-> <<>>]

ProgramFilesDir == PathOf("C:", TRUE, <<"Program Files">>)
ProgramFilesX86Dir == PathOf("C:", TRUE, <<"Program Files (x86)">>)
ExplicitDll == PathOf("D:", TRUE, <<"sdk", "LogitechLed.dll">>)

EnvInputs ==
    UNION {[K -> {ProgramFilesDir, ProgramFilesX86Dir}] :
              K \in SUBSET {"ProgramW6432", "ProgramFiles"}}

PathDllInputs == {NoPathDll, [given |-> TRUE, p |-> EmptyPath],
                  [given |-> TRUE, p |-> ExplicitDll]}

\* the files a construction on this architecture can look for
CandidateFiles(arch) ==
    {ExplicitDll,
     Join(ProgramFilesDir, LegacySubpath(Bitness(arch))),
     Join(ProgramFilesX86Dir, LegacySubpath(Bitness(arch))),
     Join(ProgramFilesDir, StandardSubpath(Bitness(arch))),
     Join(ProgramFilesDir, [StandardSubpath(Bitness(arch)) EXCEPT !.rooted = FALSE])}

\* service = LEDService(path_dll, use_legacy_dll)
LEDService_init ==
    /\ \E path_dll \in PathDllInputs, use_legacy_dll \in BOOLEAN :
          LET r == load_dll(use_legacy_dll_default, path_dll)
          IN  /\ svc' = IF r.exc = ""
                        THEN [made |-> TRUE, dll |-> r.path,
                              use_legacy_dll |-> use_legacy_dll]
                        ELSE svc
              /\ last' = [NoLast EXCEPT !.op = "__init__", !.exc = r.exc,
                             !.value = IF r.exc = "" THEN "LEDService" ELSE "None",
                             !.path = r.path, !.path_dll = path_dll,
                             !.use_legacy_dll = use_legacy_dll]
    /\ UNCHANGED <<colorVars, loadVars, issued, native, pc, scope>>

\* service.load_dll(path_dll) on a constructed service
LoadDll ==
    /\ svc.made
    /\ \E path_dll \in PathDllInputs :
          LET r == load_dll(svc.use_legacy_dll, path_dll)
          IN  last' = [NoLast EXCEPT !.op = "load_dll", !.exc = r.exc,
                          !.value = IF r.exc = "" THEN "CDLL" ELSE "None",
                          !.path = r.path, !.path_dll = path_dll,
                          !.use_legacy_dll = svc.use_legacy_dll]
    /\ UNCHANGED <<colorVars, loadVars, svc, issued, native, pc, scope>>

(***************************************************************************)
(* The facade: one native call per operation                               *)
(***************************************************************************)
LOGI_DEVICETYPE_ALL == 7
_LOGI_SHARED_SDK_LED == 1

\* the answers of the native library: 0 is failure, anything else success
NativeResults == {0, 1, 2}

\* bool(result)
Bool(r) == r # 0

Str_bool(b) == IF b THEN "True" ELSE "False"

\* a call as the native library receives it
Call(fn, ints, strs) == [fn |-> fn, ints |-> ints, strs |-> strs]

Fns(calls) == [i \in 1..Len(calls) |-> calls[i].fn]

By(op, calls) == [i \in 1..Len(calls) |-> [fn |-> calls[i].fn, by |-> op]]

Ready == svc.made /\ Len(issued) < MaxCalls

\* what every operation leaves behind: the calls it made, in order, and
\* its outcome
Do(op, calls, outcome) ==
    /\ native' = native \o calls
    /\ issued' = Append(issued, [op |-> op, fns |-> Fns(calls)])
    /\ last' = [outcome EXCEPT !.op = op, !.calls = calls]
    /\ scope' = IF pc = "body" THEN scope \o By(op, calls) ELSE scope
    /\ UNCHANGED <<colorVars, loadVars, svc, pc>>

\* return bool(self.dll.<entry point>(...))
Returns(r) == [NoLast EXCEPT !.result = r, !.value = Str_bool(Bool(r))]

start ==
    /\ Ready
    /\ \E r \in NativeResults :
          Do("start", <<Call("LogiLedInit", <<>>, <<>>)>>, Returns(r))

shutdown ==
    /\ Ready
    /\ \E r \in NativeResults :
          Do("shutdown", <<Call("LogiLedShutdown", <<>>, <<>>)>>, Returns(r))

set_target_device ==
    /\ Ready
    /\ \E target_device \in {LOGI_DEVICETYPE_ALL}, r \in NativeResults :
          Do("set_target_device",
             <<Call("LogiLedSetTargetDevice", <<target_device>>, <<>>)>>, Returns(r))

save_current_lighting ==
    /\ Ready
    /\ \E r \in NativeResults :
          Do("save_current_lighting",
             <<Call("LogiLedSaveCurrentLighting", <<>>, <<>>)>>, Returns(r))

restore_lighting ==
    /\ Ready
    /\ \E r \in NativeResults :
          Do("restore_lighting", <<Call("LogiLedRestoreLighting", <<>>, <<>>)>>,
             Returns(r))

flash_lighting ==
    /\ Ready
    /\ \E red \in {100}, green \in {0}, blue \in {50}, duration \in {0},
          interval \in {200}, r \in NativeResults :
          Do("flash_lighting",
             <<Call("LogiLedFlashLighting",
                    <<red, green, blue, duration, interval>>, <<>>)>>, Returns(r))

pulse_lighting ==
    /\ Ready
    /\ \E red \in {100}, green \in {0}, blue \in {50}, duration \in {500},
          interval \in {200}, r \in NativeResults :
          Do("pulse_lighting",
             <<Call("LogiLedPulseLighting",
                    <<red, green, blue, duration, interval>>, <<>>)>>, Returns(r))

stop_effects ==
    /\ Ready
    /\ \E r \in NativeResults :
          Do("stop_effects", <<Call("LogiLedStopEffects", <<>>, <<>>)>>, Returns(r))

set_lighting_from_bitmap ==
    /\ Ready
    /\ \E bitmap \in {"bitmap"}, r \in NativeResults :
          Do("set_lighting_from_bitmap",
             <<Call("LogiLedSetLightingFromBitmap", <<>>, <<bitmap>>)>>, Returns(r))

save_lighting_for_key ==
    /\ Ready
    /\ \E key_name \in {30}, r \in NativeResults :
          Do("save_lighting_for_key",
             <<Call("LogiLedSaveLightingForKey", <<key_name>>, <<>>)>>, Returns(r))

restore_lighting_for_key ==
    /\ Ready
    /\ \E key_name \in {30}, r \in NativeResults :
          Do("restore_lighting_for_key",
             <<Call("LogiLedRestoreLightingForKey", <<key_name>>, <<>>)>>, Returns(r))

flash_single_key ==
    /\ Ready
    /\ \E key_name \in {30}, red \in {100}, green \in {0}, blue \in {50},
          duration \in {0}, interval \in {200}, r \in NativeResults :
          Do("flash_single_key",
             <<Call("LogiLedFlashSingleKey",
                    <<key_name, red, green, blue, duration, interval>>, <<>>)>>,
             Returns(r))

\* is_infinite travels as c_bool: 1 or 0
pulse_single_key ==
    /\ Ready
    /\ \E key_name \in {30}, red_start \in {100}, green_start \in {0},
          blue_start \in {50}, duration \in {500}, is_infinite \in {TRUE},
          red_end \in {0}, green_end \in {0}, blue_end \in {0}, r \in NativeResults :
          Do("pulse_single_key",
             <<Call("LogiLedPulseSingleKey",
                    <<key_name, red_start, green_start, blue_start, red_end,
                      green_end, blue_end, duration, IF is_infinite THEN 1 ELSE 0>>,
                    <<>>)>>,
             Returns(r))

stop_effects_on_key_all ==
    /\ Ready
    /\ \E key_name \in {30}, r \in NativeResults :
          Do("stop_effects_on_key", <<Call("LogiLedStopEffects", <<>>, <<>>)>>,
             Returns(r))

stop_effects_on_key ==
    /\ Ready
    /\ \E key_name \in {30}, r \in NativeResults :
          Do("stop_effects_on_key",
             <<Call("LogiLedStopEffectsOnKey", <<key_name>>, <<>>)>>, Returns(r))

set_config_option_label ==
    /\ Ready
    /\ \E key \in {"health"}, label \in {"Health"}, r \in NativeResults :
          Do("set_config_option_label",
             <<Call("LogiSetConfigOptionLabel", <<_LOGI_SHARED_SDK_LED>>,
                    <<key, label>>)>>,
             Returns(r))

(***************************************************************************)
(* set_lighting_for_key                                                    *)
(***************************************************************************)
KeyType == {"scan", "hid", "quartz", "name"}

type_to_key_or_scan(key_type) ==
    CASE key_type = "hid" -> "LogiLedSetLightingForKeyWithHidCode"
      [] key_type = "quartz" -> "LogiLedSetLightingForKeyWithQuartzCode"
      [] key_type = "name" -> "LogiLedLightingForKeyWithKeyName"
      [] OTHER -> "LogiLedSetLightingForKeyWithScanCode"

\* a dictionary whose entry for KeyType.name is the scan-code function
type_to_key_name_as_scan(key_type) ==
    CASE key_type = "scan" -> "LogiLedSetLightingForKeyWithScanCode"
      [] key_type = "hid" -> "LogiLedSetLightingForKeyWithHidCode"
      [] key_type = "quartz" -> "LogiLedSetLightingForKeyWithQuartzCode"
      [] key_type = "name" -> "LogiLedSetLightingForKeyWithScanCode"
      [] OTHER -> "KeyError"

\* type_to_key[key_type]; "KeyError" when the dictionary has no such key
type_to_key(key_type) ==
    CASE key_type = "scan" -> "LogiLedSetLightingForKeyWithScanCode"
      [] key_type = "hid" -> "LogiLedSetLightingForKeyWithHidCode"
      [] key_type = "quartz" -> "LogiLedSetLightingForKeyWithQuartzCode"
      [] key_type = "name" -> "LogiLedLightingForKeyWithKeyName"
      [] OTHER -> "KeyError"

set_lighting_for_key ==
    /\ Ready
    /\ \E key \in {30}, key_type \in KeyType \cup {"other"},
          red \in {100}, green \in {0}, blue \in {50}, r \in NativeResults :
          LET set_lighting == type_to_key(key_type)
          IN  IF set_lighting = "KeyError"
              THEN Do("set_lighting_for_key", <<>>,
                      [NoLast EXCEPT !.key_type = key_type, !.value = "False",
                                     !.args = <<key, red, green, blue>>])
              ELSE Do("set_lighting_for_key",
                      <<Call(set_lighting, <<key, red, green, blue>>, <<>>)>>,
                      [Returns(r) EXCEPT !.key_type = key_type,
                                         !.args = <<key, red, green, blue>>])

(***************************************************************************)
(* Configuration reads.  `missing` says whether the vendor's configuration *)
(* lacks the key asked for; a native read answers 0 exactly then.          *)
(***************************************************************************)
CtypesNames == {"c_int", "c_bool", "c_double", "c_wchar_p", "c_char_p",
                "pointer", "create_string_buffer", "cdll", "CDLL"}

\* the native read of `key`: on failure None, on success `value`
Read(op, fn, key, missing, value) ==
    \E r \in NativeResults :
        /\ missing <=> r = 0
        /\ Do(op, <<Call(fn, <<_LOGI_SHARED_SDK_LED>>, <<key>>)>>,
              IF Bool(r)
              THEN [value EXCEPT !.result = r, !.missing = missing]
              ELSE [NoLast EXCEPT !.result = r, !.missing = missing])

Fails(op, missing, exc) ==
    Do(op, <<>>, [NoLast EXCEPT !.exc = exc, !.missing = missing])

Value == [NoLast EXCEPT !.value = "Value"]

\* line 448 asks ctypes for c_couble
get_config_option_number ==
    /\ Ready
    /\ \E key \in {"health/low_health_threshold"}, missing \in BOOLEAN :
          IF "c_couble" \notin CtypesNames
          THEN Fails("get_config_option_number", missing, "AttributeError")
          ELSE Read("get_config_option_number", "LogiGetConfigOptionNumber",
                    key, missing, Value)

get_config_option_bool ==
    /\ Ready
    /\ \E key \in {"health/pulse_on_low"}, missing \in BOOLEAN :
          Read("get_config_option_bool", "LogiGetConfigOptionBool", key, missing, Value)

\* called with three percentages, or with no default at all; on success the
\* answer is wrapped in Color(...), as Python 3 runs it
get_config_option_color ==
    /\ Ready
    /\ \E key \in {"health/color"}, args \in {<<>>, <<100, 0, 50>>},
          missing \in BOOLEAN, out \in {<<255, 0, 127>>} :
          IF Len(args) = 0
          THEN Fails("get_config_option_color", missing, "IndexError")
          ELSE LET c == Color_init(Args("int", out, <<>>, NoKw, FALSE, <<>>), 3)
               IN  Read("get_config_option_color", "LogiGetConfigOptionColor",
                        key, missing,
                        IF c.status = "ok" THEN Value
                        ELSE [NoLast EXCEPT !.exc = c.exc])

\* default_key.value takes bytes only
get_config_option_key_input ==
    /\ Ready
    /\ \E key \in {"abilities/primary"}, default \in {"str", "bytes"},
          missing \in BOOLEAN :
          IF default = "str"
          THEN Fails("get_config_option_key_input", missing, "TypeError")
          ELSE Read("get_config_option_key_input", "LogiGetConfigOptionKeyInput",
                    key, missing, Value)

(***************************************************************************)
(* with LEDService(...) as service: ...                                    *)
(***************************************************************************)
\* __enter__ runs as the scope is entered: self.start(), then the body
enter ==
    /\ Ready
    /\ pc = "out"
    /\ \E r \in NativeResults :
          LET calls == <<Call("LogiLedInit", <<>>, <<>>)>>
          IN  /\ native' = native \o calls
              /\ issued' = Append(issued, [op |-> "start", fns |-> Fns(calls)])
              /\ last' = [NoLast EXCEPT !.op = "__enter__", !.result = r,
                                        !.value = "LEDService", !.calls = calls]
              /\ scope' = By("__enter__", calls)
    /\ pc' = "body"
    /\ UNCHANGED <<colorVars, loadVars, svc>>

exit_without_shutdown ==
    /\ pc = "body"
    /\ \E how \in {"normal", "return", "raise"} :
          last' = [NoLast EXCEPT !.op = "__exit__", !.how = how]
    /\ pc' = "out"
    /\ UNCHANGED <<colorVars, loadVars, svc, native, issued, scope>>

\* __exit__ runs however the body is left: self.shutdown()
exit ==
    /\ pc = "body"
    /\ \E how \in {"normal", "return", "raise"}, r \in NativeResults :
          LET calls == <<Call("LogiLedShutdown", <<>>, <<>>)>>
          IN  /\ native' = native \o calls
              /\ issued' = Append(issued, [op |-> "shutdown", fns |-> Fns(calls)])
              /\ last' = [NoLast EXCEPT !.op = "__exit__", !.result = r,
                                        !.how = how, !.calls = calls]
              /\ scope' = scope \o By("__exit__", calls)
    /\ pc' = "out"
    /\ UNCHANGED <<colorVars, loadVars, svc>>

(***************************************************************************)
(* Specifications                                                          *)
(***************************************************************************)
ColorStart ==
    /\ runtime \in {2, 3}
    /\ call = NoCall
    /\ color = NoColor
    /\ origin = NoColor
    /\ percent = <<>>

\* led.py runs on Python 3 and has built no Color yet
ColorIdle ==
    /\ runtime = 3
    /\ call = NoCall
    /\ color = NoColor
    /\ origin = NoColor
    /\ percent = <<>>

LoadStart ==
    /\ env \in EnvInputs
    /\ bits \in {"32bit", "64bit"}
    /\ fs \in SUBSET CandidateFiles(bits)
    /\ libs \in SUBSET fs

LedStart ==
    /\ svc = NoService
    /\ last = NoLast
    /\ issued = <<>>
    /\ native = <<>>
    /\ pc = "out"
    /\ scope = <<>>

\* a typical installation: the legacy library is present and loads
Installed ==
    /\ env = [n \in {"ProgramW6432", "ProgramFiles"} |-> ProgramFilesDir]
    /\ bits = "64bit"
    /\ fs = {Join(ProgramFilesDir, LegacySubpath("x64"))}
    /\ libs = fs

InitColor == ColorStart /\ Installed /\ LedStart

NextColor ==
    \/ ConstructPositional
    \/ ConstructKeyword
    \/ ConstructString
    \/ ConstructHexKeyword
    \/ Reconstruct
    \/ RgbPercent

SpecColor == InitColor /\ [][NextColor]_vars

InitLoad ==
    /\ ColorIdle
    /\ LoadStart
    /\ LedStart

NextLoad ==
    \/ LEDService_init
    \/ LoadDll

SpecLoad == InitLoad /\ [][NextLoad]_vars

\* the state after LEDService() has succeeded on a typical installation
InitLed ==
    /\ ColorIdle
    /\ Installed
    /\ svc = [made |-> TRUE, dll |-> Join(ProgramFilesDir, LegacySubpath("x64")),
              use_legacy_dll |-> TRUE]
    /\ last = NoLast
    /\ issued = <<>>
    /\ native = <<>>
    /\ pc = "out"
    /\ scope = <<>>

NextLed ==
    \/ start
    \/ shutdown
    \/ set_target_device
    \/ save_current_lighting
    \/ restore_lighting
    \/ flash_lighting
    \/ pulse_lighting
    \/ stop_effects
    \/ set_lighting_from_bitmap
    \/ set_lighting_for_key
    \/ save_lighting_for_key
    \/ restore_lighting_for_key
    \/ flash_single_key
    \/ pulse_single_key
    \/ stop_effects_on_key
    \/ get_config_option_number
    \/ get_config_option_bool
    \/ get_config_option_color
    \/ get_config_option_key_input
    \/ set_config_option_label
    \/ enter
    \/ exit

SpecLed == InitLed /\ [][NextLed]_vars

(***************************************************************************)
(* Properties                                                              *)
(***************************************************************************)
RECURSIVE Flatten(_)
Flatten(ss) == IF ss = <<>> THEN <<>> ELSE Head(ss) \o Flatten(Tail(ss))

EnterCall == [fn |-> "LogiLedInit", by |-> "__enter__"]
ExitCall == [fn |-> "LogiLedShutdown", by |-> "__exit__"]

\* C1: inside a with-scope the first native call since entry is the
\* LogiLedInit made by __enter__ and none other is made by __enter__ or
\* __exit__; once the scope has been left (normally, by return or by an
\* error) the calls of the scope end with exactly one LogiLedShutdown made
\* by __exit__.
C1_ScopeStartsOnceAndShutsDownOnce ==
    /\ pc = "body" =>
          /\ Len(scope) >= 1
          /\ scope[1] = EnterCall
          /\ \A i \in 2..Len(scope) : scope[i].by \notin {"__enter__", "__exit__"}
    /\ last.op = "__exit__" =>
          /\ pc = "out"
          /\ last.how \in {"normal", "return", "raise"}
          /\ Len(scope) >= 2
          /\ scope[1] = EnterCall
          /\ scope[Len(scope)] = ExitCall
          /\ \A i \in 2..(Len(scope) - 1) : scope[i].by \notin {"__enter__", "__exit__"}

\* a scope left by an error after an operation of its body had raised
C1_Witness ==
    /\ last.op = "__exit__"
    /\ last.how = "raise"
    /\ Len(scope) = 2
    /\ issued[2].op = "get_config_option_number"

\* C2: set_lighting_for_key with a key_type outside KeyType returns False,
\* raises nothing and makes no native call.
C2_UnknownKeyTypeFailsLocally ==
    (last.op = "set_lighting_for_key" /\ last.key_type \notin KeyType) =>
        /\ last.exc = ""
        /\ last.value = "False"
        /\ last.calls = <<>>
        /\ issued[Len(issued)].fns = <<>>

C2_Witness ==
    /\ last.op = "set_lighting_for_key"
    /\ last.key_type = "other"
    /\ last.value = "False"
    /\ Len(native) = 1

ConfigReads == {"get_config_option_number", "get_config_option_bool",
                "get_config_option_color", "get_config_option_key_input"}

\* C3: a typed configuration read of a key the vendor's configuration
\* lacks returns None and raises no error.
C3_ReadOfMissingKeyReturnsNone ==
    (last.op \in ConfigReads /\ last.missing) =>
        (last.exc = "" /\ last.value = "None")

\* C4: a construction whose resolved path does not exist raises
\* SDKNotFoundException and yields no handle; a handle that exists refers to
\* a library that was loaded.
C4_MissingLibraryFailsConstruction ==
    /\ (/\ last.op = "__init__"
        /\ (~Falsy(last.path_dll) \/ DOMAIN env # {})
        /\ last.path \notin fs) =>
          (last.exc = "SDKNotFoundException" /\ last.value = "None")
    /\ last.op = "__init__" /\ last.value = "LEDService" => svc.made
    /\ svc.made => svc.dll \in libs

C4_Witness ==
    /\ last.op = "__init__"
    /\ last.exc = "SDKNotFoundException"
    /\ last.path = ExplicitDll
    /\ ~svc.made

Under(dir, sub) == PathOf(dir.drive, dir.rooted, dir.parts \o sub.parts)

\* C5: without an explicit path_dll the resolved path is the legacy subpath
\* when use_legacy_dll=True was requested and the standard subpath when
\* use_legacy_dll=False was requested, under ProgramW6432 when set and
\* under ProgramFiles otherwise.
C5_SubpathFollowsRequest ==
    (last.op = "__init__" /\ Falsy(last.path_dll) /\ DOMAIN env # {}) =>
        last.path = Under(IF "ProgramW6432" \in DOMAIN env THEN env["ProgramW6432"]
                          ELSE env["ProgramFiles"],
                          IF last.use_legacy_dll THEN LegacySubpath(Bitness(bits))
                          ELSE StandardSubpath(Bitness(bits)))

OwnEntryPoint(op) ==
    CASE op = "start" -> "LogiLedInit"
      [] op = "shutdown" -> "LogiLedShutdown"
      [] op = "set_target_device" -> "LogiLedSetTargetDevice"
      [] op = "save_current_lighting" -> "LogiLedSaveCurrentLighting"
      [] op = "restore_lighting" -> "LogiLedRestoreLighting"
      [] op = "flash_lighting" -> "LogiLedFlashLighting"
      [] op = "pulse_lighting" -> "LogiLedPulseLighting"
      [] op = "stop_effects" -> "LogiLedStopEffects"
      [] op = "set_lighting_from_bitmap" -> "LogiLedSetLightingFromBitmap"
      [] op = "save_lighting_for_key" -> "LogiLedSaveLightingForKey"
      [] op = "restore_lighting_for_key" -> "LogiLedRestoreLightingForKey"
      [] op = "flash_single_key" -> "LogiLedFlashSingleKey"
      [] op = "pulse_single_key" -> "LogiLedPulseSingleKey"
      [] op = "stop_effects_on_key" -> "LogiLedStopEffectsOnKey"
      [] op = "set_config_option_label" -> "LogiSetConfigOptionLabel"

SingleCallOps ==
    {"start", "shutdown", "set_target_device", "save_current_lighting",
     "restore_lighting", "flash_lighting", "pulse_lighting", "stop_effects",
     "set_lighting_from_bitmap", "save_lighting_for_key",
     "restore_lighting_for_key", "flash_single_key", "pulse_single_key",
     "stop_effects_on_key", "set_config_option_label"}

\* C6: each of the lifecycle, targeting, whole-device, per-key and bitmap
\* operations makes exactly one native call, to its own entry point, and
\* returns True exactly when the answer is not 0; the native library
\* receives the calls in the order the operations were issued.
C6_OneOwnCallInIssueOrder ==
    /\ last.op \in SingleCallOps =>
          /\ Fns(last.calls) = <<OwnEntryPoint(last.op)>>
          /\ last.exc = ""
          /\ last.value = IF last.result = 0 THEN "False" ELSE "True"
    /\ \A i \in 1..Len(issued) :
          issued[i].op \in SingleCallOps =>
              issued[i].fns = <<OwnEntryPoint(issued[i].op)>>
    /\ Fns(native) = Flatten([i \in 1..Len(issued) |-> issued[i].fns])

C6_Witness ==
    /\ Len(native) = 3
    /\ issued[1].op = "set_target_device"
    /\ issued[2].op = "pulse_single_key"
    /\ last.op = "stop_effects_on_key"
    /\ last.result = 2
    /\ last.value = "True"

SuppliedAlphas(c) ==
    (IF c.kind = "int" /\ Len(c.ints) > 3 THEN {c.ints[4]} ELSE {})
    \cup (IF c.kind = "str" /\ Len(c.ints) > 0 THEN {c.ints[1]} ELSE {})
    \cup (IF "alpha" \in DOMAIN c.kw THEN {c.kw["alpha"]} ELSE {})

\* C7: every channel of a constructed Color, alpha included, is in 0..255.
C7_EveryChannelIsAByte ==
    color.status = "ok" =>
        {color.red, color.green, color.blue, color.alpha} \subseteq Byte

\* What the code does enforce: red, green and blue of a constructed Color
\* are in 0..255; alpha is the alpha argument as supplied, unchecked, or 255
\* when none was supplied.
ColourChannelsAreBytes ==
    color.status = "ok" =>
        /\ {color.red, color.green, color.blue} \subseteq Byte
        /\ color.alpha \in SuppliedAlphas(call) \cup {DefaultAlpha}
        /\ SuppliedAlphas(call) = {} => color.alpha = DefaultAlpha

SixHexDigits(s) == Len(s) = 6 /\ \A i \in 1..6 : IsHexDigit(s[i])

\* C8 as stated, whatever the kind of the error: Color(s) or Color(s, alpha)
\* for a string s outside the palette fails and constructs nothing.
C8_UnknownNameIsALookupError ==
    (/\ call.kind = "str"
     /\ call.str \notin PaletteNames
     /\ ~call.hasHex
     /\ DOMAIN call.kw = {}
     /\ color.status # "none") =>
        color.status = "raised"

\* C8 as amended: Color(s) or Color(s, alpha), without keywords, for a
\* non-empty str s that is outside the palette and is not six hex digits
\* once every '#' is removed, raises TypeError, struct.error or
\* AttributeError and constructs nothing; a string of six hex digits is
\* decoded on Python 2, and the empty string gives black there.
C8_UnknownNameRaises ==
    (/\ call.kind = "str"
     /\ call.str \notin PaletteNames
     /\ ~call.hasHex
     /\ DOMAIN call.kw = {}
     /\ color.status # "none") =>
        IF call.str # <<>> /\ ~SixHexDigits(StripHash(call.str))
        THEN /\ color.status = "raised"
             /\ color.exc \in {"TypeError", "struct.error", "AttributeError"}
        ELSE runtime = 2 => color.status = "ok"

C8_Witness ==
    /\ call.kind = "str"
    /\ call.str = <<"g", "a", "F">>
    /\ color.status = "raised"
    /\ color.exc = "TypeError"

\* C9: Color(r, g, b) with r, g, b in 0..255 is constructed, its red, green
\* and blue are r, g and b, and its alpha is 255.
C9_ChannelsRoundTrip ==
    (/\ call.kind = "int"
     /\ Len(call.ints) = 3
     /\ DOMAIN call.kw = {}
     /\ color.status # "none"
     /\ \A i \in 1..3 : call.ints[i] \in Byte) =>
        /\ color.status = "ok"
        /\ <<color.red, color.green, color.blue>> = call.ints
        /\ color.alpha = DefaultAlpha

\* C10: a Color built from the hex_code of a Color c, with or without the
\* leading '#', has c's red, green and blue, and alpha 255 when no alpha is
\* supplied.
C10_HexCodeRoundTrip ==
    origin.status = "ok" =>
        /\ color.status = "ok"
        /\ <<color.red, color.green, color.blue>>
              = <<origin.red, origin.green, origin.blue>>
        /\ Len(call.ints) = 0 => color.alpha = DefaultAlpha

C10_Witness ==
    /\ origin.status = "ok"
    /\ <<origin.red, origin.green, origin.blue>> = <<171, 0, 255>>
    /\ call.str = <<"#", "a", "b", "0", "0", "f", "f">>
    /\ color.status = "ok"
    /\ color.red = 171

\* the channel triples the palette is documented to hold
LiteralTriple(t) ==
    CASE t = "red" -> <<255, 0, 0>>
      [] t = "orange" -> <<255, 165, 0>>
      [] t = "yellow" -> <<255, 255, 0>>
      [] t = "green" -> <<0, 255, 0>>
      [] t = "blue" -> <<0, 0, 255>>
      [] t = "indigo" -> <<75, 0, 130>>
      [] t = "violet" -> <<238, 130, 238>>
      [] t = "cyan" -> <<0, 220, 255>>
      [] t = "pink" -> <<255, 0, 255>>
      [] t = "purple" -> <<128, 0, 255>>
      [] t = "white" -> <<255, 255, 255>>
      [] t = "black" -> <<0, 0, 0>>

\* C11: Color(name), for each of the twelve palette names, is constructed
\* with that name's literal red, green and blue; its alpha is the second
\* argument when one is given and 255 otherwise.
C11_PaletteNameYieldsItsTriple ==
    \A t \in PaletteWords :
        (/\ call.kind = "str"
         /\ call.str = Str(t)
         /\ ~call.hasHex
         /\ DOMAIN call.kw = {}
         /\ color.status # "none") =>
            /\ color.status = "ok"
            /\ <<color.red, color.green, color.blue>> = LiteralTriple(t)
            /\ color.alpha = IF Len(call.ints) > 0 THEN call.ints[1]
                                                  ELSE DefaultAlpha

\* the same statement for the interpreter on which a Color can be built
PaletteTriplesOnPython2 == runtime = 2 => C11_PaletteNameYieldsItsTriple

\* p is channel * 100 / 255 with the fraction dropped
TruncatedRescale(channel, p) ==
    /\ p * 255 <= channel * 100
    /\ channel * 100 < (p + 1) * 255

\* C12: for a Color with channels in 0..255, rgb_percent returns for red,
\* green and blue a value in 0..100 that is the truncated linear rescale
\* channel * 100 / 255: 255 gives 100, 0 gives 0, and no smaller channel
\* value gives a larger percentage.
C12_PercentIsTruncatedRescale ==
    LET channels == <<color.red, color.green, color.blue>>
    IN  (/\ percent # <<>>
         /\ \A i \in 1..3 : channels[i] \in Byte) =>
            /\ Len(percent) = 3
            /\ \A i \in 1..3 :
                  /\ percent[i] \in 0..100
                  /\ TruncatedRescale(channels[i], percent[i])
                  /\ channels[i] = ByteMax => percent[i] = 100
                  /\ channels[i] = 0 => percent[i] = 0
                  /\ \A x \in Byte :
                        /\ x <= channels[i] => Percent(x) <= percent[i]
                        /\ x >= channels[i] => Percent(x) >= percent[i]

C12_Witness ==
    /\ color.status = "ok"
    /\ <<color.red, color.green, color.blue>> = <<153, 0, 255>>
    /\ percent = <<60, 0, 100>>

\* the native entry point of each key-type selector
SelectorEntryPoint ==
    [scan |-> "LogiLedSetLightingForKeyWithScanCode",
     hid |-> "LogiLedSetLightingForKeyWithHidCode",
     quartz |-> "LogiLedSetLightingForKeyWithQuartzCode",
     name |-> "LogiLedLightingForKeyWithKeyName"]

====
